---------------------------- MODULE Spec2Model ----------------------------
(***************************************************************************)
(* A model of ocr-extract-table (ctocr.py and extract-table.py): the line  *)
(* scanner, the row/column/cell assembly, the border trim of one cell, the *)
(* border-colour argument parser and the main loop over the input files.   *)
(*                                                                         *)
(* Tuples are 1-based in TLA+ and 0-based in Python: the Python segment    *)
(* (x1, y, x2, y) is the tuple <<x1, y, x2, y>>, and s[0] is written s[1]. *)
(* Python's None is the empty tuple <<>>, a value v that may be None is    *)
(* the one-element tuple <<v>>.                                            *)
(***************************************************************************)
EXTENDS Integers, Sequences, FiniteSets

VARIABLES
    pc,             \* the position of the program
    \* ---- one page image (get_image_data)
    pix,            \* pix[<<x, y>>]: the colour of the page's pixel
    width, height,  \* im.size
    h_thresh,       \* H_THRESH
    v_thresh,       \* V_THRESH
    border_color,   \* args.border_color
    y,              \* get_hlines: the scanline the outer loop is at
    x,              \* get_vlines: the scanline the outer loop is at
    hlines, vlines, \* the segments found
    rows, cols,     \* the row and column boundaries
    cells,          \* cells[i][j], a function of functions
    \* ---- one cell (ocr_cell)
    region,         \* region[<<x, y>>]: the cell's pixel, gray then binarized
    size,           \* region.size, <<width, height>>
    bgcolor,        \* the background shade, <<>> before it is determined
    x1, y1, x2, y2, \* the corners of the trim
    trimmed,        \* the set of the region's positions the crop keeps
    \* ---- the border-colour argument (color)
    string,         \* the argument, a tuple of one-character strings
    value,          \* what color returned or raised
    \* ---- extract-table.py's main loop
    input_files,    \* len(args.input_files)
    file_idx,       \* the index of input_file in args.input_files
    workdir,        \* args.workdir: <<>> (None) or <<directory>>
    dirs,           \* the directories that exist
    made,           \* how many temporary directories were made
    tempdir,        \* the with statement's directory, <<>> outside it
    pages,          \* the pages of input_file still to extract
    todo,           \* the cells of the page still to recognize
    argv_workdir    \* the --workdir option as given, <<>> without it

pageVars == <<pix, width, height, h_thresh, v_thresh, border_color, y, x,
              hlines, vlines, rows, cols, cells>>
cellVars == <<region, size, bgcolor, x1, y1, x2, y2, trimmed>>
colorVars == <<string, value>>
mainVars == <<input_files, file_idx, workdir, dirs, made, tempdir, pages, todo,
              argv_workdir>>
vars == <<pc, pageVars, cellVars, colorVars, mainVars>>

\* ------------------------------------------------------------------ bounds
\* The widest and the tallest page image.
MaxWidth == 4
MaxHeight == 3
\* H_THRESH and V_THRESH are 300 in the source, where they are only compared
\* with a run's length; the model draws them from 1..MaxThresh.
MaxThresh == 2

\* The colours of a page's pixels: black, the default border colour, and white.
Black == <<0, 0, 0>>
White == <<255, 255, 255>>
Palette == {Black, White}

\* What the parts of the state are while another part of the program runs.
IdlePage ==
    /\ pix = <<>> /\ width = 0 /\ height = 0
    /\ h_thresh = 0 /\ v_thresh = 0 /\ border_color = Black
    /\ y = 0 /\ x = 0
    /\ hlines = <<>> /\ vlines = <<>> /\ rows = <<>> /\ cols = <<>>
    /\ cells = <<>>
IdleCell ==
    /\ region = <<>> /\ size = <<0, 0>> /\ bgcolor = <<>>
    /\ x1 = 0 /\ y1 = 0 /\ x2 = 0 /\ y2 = 0 /\ trimmed = {}
IdleColor == string = <<>> /\ value = <<>>
IdleMain ==
    /\ input_files = 0 /\ file_idx = 0 /\ workdir = <<>> /\ dirs = {}
    /\ made = 0 /\ tempdir = <<>> /\ pages = 0 /\ todo = 0
    /\ argv_workdir = <<>>

\* ------------------------------------------------------------ LineScanner
\* One step of the inner loop of get_hlines / get_vlines at pixel index k:
\* st is [first, last, black, run], the loop's x1, x2, black and run.
\* `not x1` is true of None and of 0.
scan_step(st, match, k) ==
    IF match
    THEN [st EXCEPT !.black = st.black + 1,
                    !.first = IF st.first = <<>> \/ st.first = <<0>>
                              THEN <<k>> ELSE st.first,
                    !.last = <<k>>]
    ELSE [st EXCEPT !.run = IF st.black > st.run THEN st.black ELSE st.run,
                    !.black = 0]

\* The inner loop over a scanline, line[k + 1] telling whether pixel k has
\* the border colour.
RECURSIVE scan_from(_, _, _)
scan_from(line, k, st) ==
    IF k >= Len(line) THEN st
    ELSE scan_from(line, k + 1, scan_step(st, line[k + 1], k))

scan_line(line) ==
    scan_from(line, 0, [first |-> <<>>, last |-> <<>>, black |-> 0, run |-> 0])

\* Row yy of the page as get_hlines reads it, column xx as get_vlines does.
hline_of(yy) == [k \in 1..width |-> pix[<<k - 1, yy>>] = border_color]
vline_of(xx) == [k \in 1..height |-> pix[<<xx, k - 1>>] = border_color]

\* The body of get_hlines' outer loop for row y.
get_hlines ==
    /\ pc = "get_hlines"
    /\ y < height
    /\ LET st == scan_line(hline_of(y))
       IN hlines' = IF st.run > h_thresh
                    THEN Append(hlines, <<st.first[1], y, st.last[1], y>>)
                    ELSE hlines
    /\ y' = y + 1
    /\ UNCHANGED <<pc, pix, width, height, h_thresh, v_thresh, border_color,
                   x, vlines, rows, cols, cells>>
    /\ UNCHANGED <<cellVars, colorVars, mainVars>>

\* get_hlines returns; get_image_data calls get_vlines.
get_hlines_return ==
    /\ pc = "get_hlines"
    /\ y >= height
    /\ pc' = "get_vlines"
    /\ UNCHANGED <<pageVars, cellVars, colorVars, mainVars>>

\* The body of get_vlines' outer loop for column x.
get_vlines ==
    /\ pc = "get_vlines"
    /\ x < width
    /\ LET st == scan_line(vline_of(x))
       IN vlines' = IF st.run > v_thresh
                    THEN Append(vlines, <<x, st.first[1], x, st.last[1]>>)
                    ELSE vlines
    /\ x' = x + 1
    /\ UNCHANGED <<pc, pix, width, height, h_thresh, v_thresh, border_color,
                   y, hlines, rows, cols, cells>>
    /\ UNCHANGED <<cellVars, colorVars, mainVars>>

get_vlines_return ==
    /\ pc = "get_vlines"
    /\ x >= width
    /\ pc' = "get_rows"
    /\ UNCHANGED <<pageVars, cellVars, colorVars, mainVars>>

\* A page image of every size and content, and the thresholds.
InitScan ==
    /\ pc = "get_hlines"
    /\ width \in 1..MaxWidth
    /\ height \in 1..MaxHeight
    /\ pix \in [(0..(width - 1)) \X (0..(height - 1)) -> Palette]
    /\ h_thresh \in 1..MaxThresh
    /\ v_thresh \in 1..MaxThresh
    /\ border_color = Black
    /\ y = 0 /\ x = 0
    /\ hlines = <<>> /\ vlines = <<>> /\ rows = <<>> /\ cols = <<>>
    /\ cells = <<>>
    /\ IdleCell /\ IdleColor /\ IdleMain


\* ----------------------------------------------------------- GridAssembler
\* The loop of get_cols from index i (0-based) on, cols so far in acc.
RECURSIVE get_cols_from(_, _, _)
get_cols_from(vl, i, acc) ==
    IF i >= Len(vl) THEN acc
    ELSE get_cols_from(vl, i + 1,
            IF vl[i + 1][1] - vl[i][1] > 1
            THEN Append(acc, <<vl[i][1], vl[i][2], vl[i + 1][3], vl[i + 1][4]>>)
            ELSE acc)

\* A get_cols that takes the column's start from the current line.
RECURSIVE get_cols_from_curr_start(_, _, _)
get_cols_from_curr_start(vl, i, acc) ==
    IF i >= Len(vl) THEN acc
    ELSE get_cols_from_curr_start(vl, i + 1,
            IF vl[i + 1][1] - vl[i][1] > 1
            THEN Append(acc, <<vl[i][1], vl[i + 1][2], vl[i + 1][3], vl[i + 1][4]>>)
            ELSE acc)

get_cols_curr_start(vl) == get_cols_from_curr_start(vl, 1, <<>>)

\* get_cols: for i in range(1, len(vlines)).
get_cols(vl) == get_cols_from(vl, 1, <<>>)

\* The loop of get_rows from index i (0-based) on, rows so far in acc.
RECURSIVE get_rows_from(_, _, _)
get_rows_from(hl, i, acc) ==
    IF i >= Len(hl) THEN acc
    ELSE get_rows_from(hl, i + 1,
            IF hl[i + 1][2] - hl[i][4] > 1
            THEN Append(acc, <<hl[i][1], hl[i][2], hl[i + 1][3], hl[i + 1][4]>>)
            ELSE acc)

\* A get_rows whose loop starts at index 2: the first pair is never looked at.
get_rows_skip_first(hl) == get_rows_from(hl, 2, <<>>)

\* get_rows: for i in range(1, len(hlines)).
get_rows(hl) == get_rows_from(hl, 1, <<>>)

\* A get_cells that takes the cell's right edge from the column's left one.
get_cells_left_edge_twice(rs, cs) ==
    [i \in 0..(Len(rs) - 1) |->
        [j \in 0..(Len(cs) - 1) |->
            <<cs[j + 1][1], rs[i + 1][2], cs[j + 1][1], rs[i + 1][4]>>]]

\* get_cells: cells[i][j] for every row i and column j, keyed from 0.
get_cells(rs, cs) ==
    [i \in 0..(Len(rs) - 1) |->
        [j \in 0..(Len(cs) - 1) |->
            <<cs[j + 1][1], rs[i + 1][2], cs[j + 1][3], rs[i + 1][4]>>]]

\* get_image_data: rows = get_rows(hlines)
assign_rows ==
    /\ pc = "get_rows"
    /\ rows' = get_rows(hlines)
    /\ pc' = "get_cols"
    /\ UNCHANGED <<pix, width, height, h_thresh, v_thresh, border_color, y, x,
                   hlines, vlines, cols, cells>>
    /\ UNCHANGED <<cellVars, colorVars, mainVars>>

\* get_image_data: cols = get_cols(vlines)
assign_cols ==
    /\ pc = "get_cols"
    /\ cols' = get_cols(vlines)
    /\ pc' = "get_cells"
    /\ UNCHANGED <<pix, width, height, h_thresh, v_thresh, border_color, y, x,
                   hlines, vlines, rows, cells>>
    /\ UNCHANGED <<cellVars, colorVars, mainVars>>

\* get_image_data: cells = get_cells(rows, cols); the loop over the cells
\* that follows hands each to ocr_cell and changes none of these.
assign_cells ==
    /\ pc = "get_cells"
    /\ cells' = get_cells(rows, cols)
    /\ pc' = "data"
    /\ UNCHANGED <<pix, width, height, h_thresh, v_thresh, border_color, y, x,
                   hlines, vlines, rows, cols>>
    /\ UNCHANGED <<cellVars, colorVars, mainVars>>

NextScan ==
    \/ get_hlines
    \/ get_hlines_return
    \/ get_vlines
    \/ get_vlines_return
    \/ assign_rows
    \/ assign_cols
    \/ assign_cells

SpecScan == InitScan /\ [][NextScan]_vars

\* ---- the assembly alone, from every list of segments the scanner can return
\* The largest coordinate of a ruling line, and the most ruling lines of both
\* orientations together.
MaxCoord == 4
MaxLines == 5

\* The elements of a set of numbers in increasing order.
RECURSIVE Sorted(_)
Sorted(S) ==
    IF S = {} THEN <<>>
    ELSE LET m == CHOOSE a \in S : \A b \in S : a <= b
         IN <<m>> \o Sorted(S \ {m})

\* The start and end a segment may have. The start is never 0: the scan
\* takes a start of 0 for unset and moves it to the next matching pixel, and
\* a run longer than the threshold has one. On a page MaxCoord + 3 wide, with
\* threshold 1, the scanline W B B W B W W has the extent (1, 4) and
\* W W B B B B W the extent (2, 5).
Extents == {<<1, MaxCoord>>, <<2, MaxCoord + 1>>}

\* get_hlines appends at most one segment (x1, y, x2, y) per row, in
\* increasing y; get_vlines one (x, y1, x, y2) per column, in increasing x.
HLinesOf(S, f) ==
    LET c == Sorted(S)
    IN [k \in 1..Len(c) |-> <<f[c[k]][1], c[k], f[c[k]][2], c[k]>>]
VLinesOf(S, f) ==
    LET c == Sorted(S)
    IN [k \in 1..Len(c) |-> <<c[k], f[c[k]][1], c[k], f[c[k]][2]>>]

InitGrid ==
    /\ pc = "get_rows"
    /\ pix = <<>> /\ border_color = Black   \* the page is not read again
    /\ width = MaxCoord + 3 /\ height = MaxCoord + 3
    /\ h_thresh = 1 /\ v_thresh = 1
    /\ y = height /\ x = width
    /\ \E S \in SUBSET (0..MaxCoord), T \in SUBSET (0..MaxCoord) :
         /\ Cardinality(S) + Cardinality(T) <= MaxLines
         /\ \E f \in [S -> Extents], g \in [T -> Extents] :
              /\ hlines = HLinesOf(S, f)
              /\ vlines = VLinesOf(T, g)
    /\ rows = <<>> /\ cols = <<>> /\ cells = <<>>
    /\ IdleCell /\ IdleColor /\ IdleMain

NextGrid ==
    \/ assign_rows
    \/ assign_cols
    \/ assign_cells

SpecGrid == InitGrid /\ [][NextGrid]_vars

\* ------------------------------------------------------------- CellTrimmer
\* The longest side of a cell's image.
MaxSide == 3

\* The positions of an image of size sz.
Positions(sz) == (0..(sz[1] - 1)) \X (0..(sz[2] - 1))

\* region.point(lambda p: p > 200 and 255): False is the shade 0.
binarize(p) == IF p > 200 THEN 255 ELSE 0

\* histo[shade] of region.histogram().
histo(reg, shade) == Cardinality({p \in DOMAIN reg : reg[p] = shade})

\* A background that is the less used shade.
background_least_used(reg) == IF histo(reg, 0) < histo(reg, 255) THEN 0 ELSE 255

\* The background colour: the most used shade, white on a tie.
background(reg) == IF histo(reg, 0) > histo(reg, 255) THEN 0 ELSE 255

\* region.crop((left, upper, right, lower)): the positions of the region the
\* result holds; the right column and the lower row of the box are not in it.
crop(sz, box) ==
    {p \in Positions(sz) : /\ box[1] <= p[1] /\ p[1] < box[3]
                           /\ box[2] <= p[2] /\ p[2] < box[4]}

\* region = region.point(lambda p: p > 200 and 255)
point ==
    /\ pc = "point"
    /\ region' = [p \in DOMAIN region |-> binarize(region[p])]
    /\ pc' = "histogram"
    /\ UNCHANGED <<size, bgcolor, x1, y1, x2, y2, trimmed>>
    /\ UNCHANGED <<pageVars, colorVars, mainVars>>

\* The background colour and the corners the scans start from.
histogram ==
    /\ pc = "histogram"
    /\ bgcolor' = <<background(region)>>
    /\ x1' = 0 /\ y1' = 0
    /\ x2' = size[1] - 1 /\ y2' = size[2] - 1
    /\ pc' = "while_1"
    /\ UNCHANGED <<region, size, trimmed>>
    /\ UNCHANGED <<pageVars, colorVars, mainVars>>

\* pix[x1, y1] with the cursor past the right or the lower edge: IndexError.
while_1_index_error ==
    /\ pc = "while_1"
    /\ (x1 >= size[1] \/ y1 >= size[2])
    /\ pc' = "IndexError"
    /\ UNCHANGED <<cellVars, pageVars, colorVars, mainVars>>

\* while pix[x1, y1] != bgcolor: x1 += 1; y1 += 1
while_1_body ==
    /\ pc = "while_1"
    /\ x1 < size[1] /\ y1 < size[2]
    /\ region[<<x1, y1>>] # bgcolor[1]
    /\ x1' = x1 + 1 /\ y1' = y1 + 1
    /\ UNCHANGED <<pc, region, size, bgcolor, x2, y2, trimmed>>
    /\ UNCHANGED <<pageVars, colorVars, mainVars>>

while_1_exit ==
    /\ pc = "while_1"
    /\ x1 < size[1] /\ y1 < size[2]
    /\ region[<<x1, y1>>] = bgcolor[1]
    /\ pc' = "while_2"
    /\ UNCHANGED <<cellVars, pageVars, colorVars, mainVars>>

\* The position pix[x2, y2] reads: a negative index counts from the far edge
\* (Pillow from 4.1 on); <<>> when that is still outside the image.
wrapped(sz, xx, yy) ==
    LET wx == IF xx < 0 THEN sz[1] + xx ELSE xx
        wy == IF yy < 0 THEN sz[2] + yy ELSE yy
    IN IF wx < 0 \/ wy < 0 THEN <<>> ELSE <<wx, wy>>

\* pix[x2, y2] with the cursor past the left or the upper edge: IndexError,
\* from a Pillow that takes no negative index, and from every Pillow when the
\* index is still negative after counting from the far edge.
while_2_index_error ==
    /\ pc = "while_2"
    /\ (x2 < 0 \/ y2 < 0)
    /\ pc' = "IndexError"
    /\ UNCHANGED <<cellVars, pageVars, colorVars, mainVars>>

\* while pix[x2, y2] != bgcolor: x2 -= 1; y2 -= 1
while_2_body ==
    /\ pc = "while_2"
    /\ wrapped(size, x2, y2) # <<>>
    /\ region[wrapped(size, x2, y2)] # bgcolor[1]
    /\ x2' = x2 - 1 /\ y2' = y2 - 1
    /\ UNCHANGED <<pc, region, size, bgcolor, x1, y1, trimmed>>
    /\ UNCHANGED <<pageVars, colorVars, mainVars>>

while_2_exit ==
    /\ pc = "while_2"
    /\ wrapped(size, x2, y2) # <<>>
    /\ region[wrapped(size, x2, y2)] = bgcolor[1]
    /\ pc' = "crop"
    /\ UNCHANGED <<cellVars, pageVars, colorVars, mainVars>>

\* trimmed = region.crop((x1, y1, x2, y2))
do_crop ==
    /\ pc = "crop"
    /\ x1 <= x2 /\ y1 <= y2
    /\ trimmed' = crop(size, <<x1, y1, x2, y2>>)
    /\ pc' = "save"
    /\ UNCHANGED <<region, size, bgcolor, x1, y1, x2, y2>>
    /\ UNCHANGED <<pageVars, colorVars, mainVars>>

\* crop with right < left or lower < upper: a ValueError from the Pillows
\* that check the box, an image of no pixel from the others.
crop_bad_box ==
    /\ pc = "crop"
    /\ (x2 < x1 \/ y2 < y1)
    /\ pc' \in {"ValueError", "save"}
    /\ UNCHANGED <<cellVars, pageVars, colorVars, mainVars>>

\* The cell as ImageOps.grayscale returns it: every size im.crop(cells[x][y])
\* can have (two lines of a cell are more than 1 apart) and, of the gray
\* levels, the two the binarization tells apart.
InitTrim ==
    /\ pc = "point"
    /\ size \in (2..MaxSide) \X (2..MaxSide)
    /\ region \in [Positions(size) -> {200, 201}]
    /\ bgcolor = <<>>
    /\ x1 = 0 /\ y1 = 0 /\ x2 = 0 /\ y2 = 0 /\ trimmed = {}
    /\ IdlePage /\ IdleColor /\ IdleMain

NextTrim ==
    \/ point
    \/ histogram
    \/ while_1_index_error
    \/ while_1_body
    \/ while_1_exit
    \/ while_2_index_error
    \/ while_2_body
    \/ while_2_exit
    \/ do_crop
    \/ crop_bad_box

SpecTrim == InitTrim /\ [][NextTrim]_vars

\* ------------------------------------------------------------------- color
\* A string is a tuple of one-character strings.
Whitespace == {" ", "\t"}
DecDigits == {"0", "1", "2", "3", "4", "5", "6", "7", "8", "9"}
HexDigits == DecDigits \cup {"a", "b", "c", "d", "e", "f",
                             "A", "B", "C", "D", "E", "F"}

\* The value of a decimal digit.
digit_value(c) ==
    CASE c = "0" -> 0 [] c = "1" -> 1 [] c = "2" -> 2 [] c = "3" -> 3
      [] c = "4" -> 4 [] c = "5" -> 5 [] c = "6" -> 6 [] c = "7" -> 7
      [] c = "8" -> 8 [] c = "9" -> 9

\* int(channel_value): the decimal value of a string of decimal digits, and
\* <<>> for the ValueError int raises on any other string.
RECURSIVE int_from(_, _, _)
int_from(str, k, acc) ==
    IF k > Len(str) THEN <<acc>>
    ELSE IF str[k] \notin DecDigits THEN <<>>
    ELSE int_from(str, k + 1, 10 * acc + digit_value(str[k]))

int(str) == IF Len(str) = 0 THEN <<>> ELSE int_from(str, 1, 0)

\* The index of the first character from k on that is not in the class
\* (Len(str) + 1 when there is none): where \s* or \d+ stops matching.
RECURSIVE skip(_, _, _)
skip(str, k, class) ==
    IF k <= Len(str) /\ str[k] \in class THEN skip(str, k + 1, class) ELSE k

\* re.fullmatch(r"\s*#([0-9A-Fa-f]{2})([0-9A-Fa-f]{2})([0-9A-Fa-f]{2})\s*"):
\* the three groups, or <<>> for None.
match_hex(str) ==
    LET a == skip(str, 1, Whitespace)
    IN IF /\ a + 6 <= Len(str)
          /\ str[a] = "#"
          /\ \A k \in (a + 1)..(a + 6) : str[k] \in HexDigits
          /\ skip(str, a + 7, Whitespace) = Len(str) + 1
       THEN <<SubSeq(str, a + 1, a + 2), SubSeq(str, a + 3, a + 4),
              SubSeq(str, a + 5, a + 6)>>
       ELSE <<>>

\* re.fullmatch(r"\s*\(\s*(\d+)\s*,\s*(\d+)\s*,\s*(\d+)\s*\)\s*"): the three
\* groups, or <<>> for None. The classes \s, \d and the punctuation share no
\* character, so each \s* and \d+ takes all it can and nothing is retried.
match_dec(str) ==
    LET n == Len(str)
        a == skip(str, 1, Whitespace)
        b == skip(str, a + 1, Whitespace)
        c == skip(str, b, DecDigits)
        d == skip(str, c, Whitespace)
        e == skip(str, d + 1, Whitespace)
        f == skip(str, e, DecDigits)
        g == skip(str, f, Whitespace)
        h == skip(str, g + 1, Whitespace)
        i == skip(str, h, DecDigits)
        j == skip(str, i, Whitespace)
    IN IF /\ a <= n /\ str[a] = "("
          /\ c > b
          /\ d <= n /\ str[d] = ","
          /\ f > e
          /\ g <= n /\ str[g] = ","
          /\ i > h
          /\ j <= n /\ str[j] = ")"
          /\ skip(str, j + 1, Whitespace) = n + 1
       THEN <<SubSeq(str, b, c - 1), SubSeq(str, e, f - 1),
              SubSeq(str, h, i - 1)>>
       ELSE <<>>

\* color(string): <<"return", value>>, or <<"raise", exception>>.
color(str) ==
    LET m1 == match_hex(str)
        value_match == IF m1 = <<>> THEN match_dec(str) ELSE m1
    IN IF value_match = <<>> THEN <<"raise", "ArgumentTypeError">>
       ELSE LET ch == [k \in 1..3 |-> int(value_match[k])]
            IN IF \E k \in 1..3 : ch[k] = <<>>
               THEN <<"raise", "ValueError">>
               ELSE <<"return", <<ch[1][1], ch[2][1], ch[3][1]>>>>

\* argparse converts the --border-color argument: type=color.
parse_border_color ==
    /\ pc = "parse_args"
    /\ value' = color(string)
    /\ pc' = IF color(string)[1] = "return" THEN "parsed" ELSE "error"
    /\ UNCHANGED <<string, pageVars, cellVars, mainVars>>

\* The arguments the model gives color.
HexPairs == {<<"0", "0">>, <<"1", "0">>, <<"F", "F">>, <<"7", "f">>,
             <<"0", "G">>}
Pads == {<<>>, <<" ">>}
HexArgs ==
    {l \o <<"#">> \o r \o g \o b \o t :
        l \in Pads, t \in Pads, r \in HexPairs, g \in HexPairs, b \in HexPairs}
Numbers == {<<"0">>, <<"7">>, <<"1", "6">>, <<"0", "1", "0">>,
            <<"2", "5", "5">>, <<"2", "5", "6">>}
DecArgs ==
    {<<"(">> \o r \o l \o <<",">> \o t \o g \o <<",">> \o b \o <<")">> :
        l \in Pads, t \in Pads, r \in Numbers, g \in Numbers, b \in Numbers}
OtherArgs ==
    {<<>>,
     <<"#">>,
     <<"#", "1", "2", "3", "4", "5">>,
     <<"#", "1", "2", "3", "4", "5", "6", "7">>,
     <<"#", "1", "2", " ", "3", "4", "5", "6">>,
     <<"1", ",", "2", ",", "3">>,
     <<"(", "1", ",", "2", ")">>,
     <<"(", "1", ",", "2", ",", "3">>,
     <<"(", "1", ",", ",", "3", ")">>,
     <<"(", "1", " ", "2", ",", "3", ",", "4", ")">>,
     <<"(", "-", "1", ",", "2", ",", "3", ")">>,
     <<"(", "1", ",", "2", ",", "3", ")", "#">>,
     <<"0", "x", "1", "0", "2", "0", "3", "0">>,
     <<"r", "e", "d">>}

InitColor ==
    /\ pc = "parse_args"
    /\ string \in HexArgs \cup DecArgs \cup OtherArgs
    /\ value = <<>>
    /\ IdlePage /\ IdleCell /\ IdleMain

\* With the arguments parsed the program goes on to the input files.
run_main ==
    /\ pc = "parsed"
    /\ pc' = "main"
    /\ border_color' = value[2]
    /\ UNCHANGED <<pix, width, height, h_thresh, v_thresh, y, x, hlines, vlines,
                   rows, cols, cells>>
    /\ UNCHANGED <<cellVars, colorVars, mainVars>>

\* argparse reports the exception of the conversion and exits with status 2.
parser_error ==
    /\ pc = "error"
    /\ pc' = "exit_2"
    /\ UNCHANGED <<pageVars, cellVars, colorVars, mainVars>>

NextColor ==
    \/ parse_border_color
    \/ run_main
    \/ parser_error

SpecColor == InitColor /\ [][NextColor]_vars

\* ------------------------------------------- extract-table.py's main loop
\* The most input files, pages of a file and cells of a page.
MaxFiles == 3
MaxPages == 2
MaxCells == 2

\* for input_file in args.input_files: if args.workdir is None
for_input_file ==
    /\ pc = "for"
    /\ file_idx < input_files
    /\ pc' = IF workdir = <<>> THEN "with" ELSE "split_pdf_into_pngs"
    /\ UNCHANGED <<mainVars, pageVars, cellVars, colorVars>>

\* with tempfile.TemporaryDirectory() as tempdir: args.workdir = tempdir
with_enter ==
    /\ pc = "with"
    /\ made' = made + 1
    /\ dirs' = dirs \cup {made + 1}
    /\ tempdir' = <<made + 1>>
    /\ workdir' = <<made + 1>>
    /\ pc' = "split_pdf_into_pngs"
    /\ UNCHANGED <<input_files, file_idx, pages, todo, argv_workdir>>
    /\ UNCHANGED <<pageVars, cellVars, colorVars>>

\* split_pdf_into_pngs: pdftoppm writes the pages into args.workdir and glob
\* lists them; nothing is written to, or listed in, a directory that does
\* not exist.
split_pdf_into_pngs ==
    /\ pc = "split_pdf_into_pngs"
    /\ pages' \in IF workdir[1] \in dirs THEN 0..MaxPages ELSE {0}
    /\ pc' = "for_png_file_path"
    /\ UNCHANGED <<input_files, file_idx, workdir, dirs, made, tempdir, todo,
                   argv_workdir>>
    /\ UNCHANGED <<pageVars, cellVars, colorVars>>

\* extract_pdf_table: get_image_table_data(png_file_path) finds the cells.
get_image_table_data ==
    /\ pc = "for_png_file_path"
    /\ pages > 0
    /\ pages' = pages - 1
    /\ todo' \in 0..MaxCells
    /\ pc' = "ocr_table_cell"
    /\ UNCHANGED <<input_files, file_idx, workdir, dirs, made, tempdir,
                   argv_workdir>>
    /\ UNCHANGED <<pageVars, cellVars, colorVars>>

\* ocr_table_cell writes the cell's image and text under args.workdir.
ocr_table_cell ==
    /\ pc = "ocr_table_cell"
    /\ todo > 0
    /\ todo' = todo - 1
    /\ UNCHANGED <<pc, input_files, file_idx, workdir, dirs, made, tempdir,
                   pages, argv_workdir>>
    /\ UNCHANGED <<pageVars, cellVars, colorVars>>

\* get_image_table_data returns the page's table.
page_done ==
    /\ pc = "ocr_table_cell"
    /\ todo = 0
    /\ pc' = "for_png_file_path"
    /\ UNCHANGED <<mainVars, pageVars, cellVars, colorVars>>

\* print(extract_pdf_table_into_str(input_file))
print_table ==
    /\ pc = "for_png_file_path"
    /\ pages = 0
    /\ pc' = IF tempdir # <<>> THEN "with_exit" ELSE "for"
    /\ file_idx' = file_idx + 1
    /\ UNCHANGED <<input_files, workdir, dirs, made, tempdir, pages, todo,
                   argv_workdir>>
    /\ UNCHANGED <<pageVars, cellVars, colorVars>>

\* The with statement ends: the temporary directory is removed. args.workdir
\* keeps its path.
with_exit ==
    /\ pc = "with_exit"
    /\ dirs' = dirs \ {tempdir[1]}
    /\ tempdir' = <<>>
    /\ pc' = "for"
    /\ UNCHANGED <<input_files, file_idx, workdir, made, pages, todo,
                   argv_workdir>>
    /\ UNCHANGED <<pageVars, cellVars, colorVars>>

for_done ==
    /\ pc = "for"
    /\ file_idx >= input_files
    /\ pc' = "done"
    /\ UNCHANGED <<mainVars, pageVars, cellVars, colorVars>>

\* The arguments parsed: FILE one or more times, --workdir given (the
\* directory 0, which exists) or not. Temporary directories are 1, 2, ...
InitMain ==
    /\ pc = "for"
    /\ input_files \in 1..MaxFiles
    /\ file_idx = 0
    /\ argv_workdir \in {<<>>, <<0>>}
    /\ workdir = argv_workdir
    /\ dirs = {argv_workdir[k] : k \in DOMAIN argv_workdir}
    /\ made = 0 /\ tempdir = <<>> /\ pages = 0 /\ todo = 0
    /\ IdlePage /\ IdleCell /\ IdleColor

NextMain ==
    \/ for_input_file
    \/ with_enter
    \/ split_pdf_into_pngs
    \/ get_image_table_data
    \/ ocr_table_cell
    \/ page_done
    \/ print_table
    \/ with_exit
    \/ for_done

SpecMain == InitMain /\ [][NextMain]_vars

\* ------------------------------------------------------- the whole program
Init == InitScan \/ InitGrid \/ InitTrim \/ InitColor \/ InitMain
Next == NextScan \/ NextGrid \/ NextTrim \/ NextColor \/ NextMain
Spec == Init /\ [][Next]_vars

\* ================================================================= claims
\* ---- LineScanner (SpecScan)
\* The page's only pixels of the border colour are those of row yy from
\* column a to column b.
SingleHRun(yy, a, b) ==
    \A p \in DOMAIN pix :
        (pix[p] = border_color) <=> (p[2] = yy /\ a <= p[1] /\ p[1] <= b)

\* C1: when the only pixels of the border colour form one horizontal run of
\* length L on row yy, anywhere in the row, get_hlines returns exactly the
\* segment (first column, yy, last column, yy) if L = threshold + 1, and no
\* segment if L = threshold.
C1_SingleRunDetected ==
    pc # "get_hlines" =>
        \A yy \in 0..(height - 1), a \in 0..(width - 1), b \in 0..(width - 1) :
            (a <= b /\ SingleHRun(yy, a, b)) =>
                /\ (b - a + 1 = h_thresh + 1) => hlines = << <<a, yy, b, yy>> >>
                /\ (b - a + 1 = h_thresh) => hlines = <<>>

\* C2: of every segment get_hlines or get_vlines returns, end >= start, every
\* pixel from start to end on the scanline has the border colour, and
\* end - start + 1 is greater than the threshold.
C2_SegmentIsLongRun ==
    /\ \A k \in 1..Len(hlines) :
         LET s == hlines[k]
         IN /\ s[3] >= s[1]
            /\ \A xx \in s[1]..s[3] : pix[<<xx, s[2]>>] = border_color
            /\ s[3] - s[1] + 1 > h_thresh
    /\ \A k \in 1..Len(vlines) :
         LET s == vlines[k]
         IN /\ s[4] >= s[2]
            /\ \A yy \in s[2]..s[4] : pix[<<s[1], yy>>] = border_color
            /\ s[4] - s[2] + 1 > v_thresh

\* ---- GridAssembler (SpecGrid)
\* The fixed coordinate, the start and the end of a horizontal segment
\* (x1, y, x2, y) and of a vertical segment (x, y1, x, y2).
HFixed(s) == s[2]
HStart(s) == s[1]
HEnd(s) == s[3]
VFixed(s) == s[1]
VStart(s) == s[2]
VEnd(s) == s[4]

\* The consecutive pairs (k, k + 1) of lines more than 1 pixel apart.
HGaps == {k \in 1..(Len(hlines) - 1) : HFixed(hlines[k + 1]) - HFixed(hlines[k]) > 1}
VGaps == {k \in 1..(Len(vlines) - 1) : VFixed(vlines[k + 1]) - VFixed(vlines[k]) > 1}

\* Two lines of each orientation, each pair more than 1 pixel apart.
TwoOuterRulings ==
    /\ Len(hlines) = 2 /\ HGaps = {1}
    /\ Len(vlines) = 2 /\ VGaps = {1}

\* The (i, j) that cells holds a cell for.
CellKeys == {<<i, j>> \in (0..MaxCoord) \X (0..MaxCoord) :
                i \in DOMAIN cells /\ j \in DOMAIN cells[i]}

\* C3 as claimed: two outer rulings on each axis and no inner ones give no
\* row boundary, no column boundary and an empty cell matrix.
C3_TwoRulingsNoCell ==
    (pc = "data" /\ TwoOuterRulings) =>
        /\ rows = <<>> /\ cols = <<>>
        /\ CellKeys = {}

\* C3, amended: two outer rulings on each axis and no inner ones give exactly
\* one row boundary, one column boundary and the one cell between the rulings.
C3_TwoRulingsOneCell ==
    (pc = "data" /\ TwoOuterRulings) =>
        /\ Len(rows) = 1 /\ Len(cols) = 1
        /\ CellKeys = {<<0, 0>>}
        /\ cells[0][0] = <<VFixed(vlines[1]), HFixed(hlines[1]),
                           VFixed(vlines[2]), HFixed(hlines[2])>>

C3_Witness == pc = "data" /\ TwoOuterRulings

\* The column boundary of the lines k and k + 1:
\* (prev.fixed, prev.start, curr.fixed, curr.end).
ColOf(k) == <<VFixed(vlines[k]), VStart(vlines[k]),
              VFixed(vlines[k + 1]), VEnd(vlines[k + 1])>>
\* The row boundary of the lines k and k + 1 in the same order of fields, and
\* in the order (prev.start, prev.fixed, curr.end, curr.fixed).
RowOfAsClaimed(k) == <<HFixed(hlines[k]), HStart(hlines[k]),
                       HFixed(hlines[k + 1]), HEnd(hlines[k + 1])>>
RowOf(k) == <<HStart(hlines[k]), HFixed(hlines[k]),
              HEnd(hlines[k + 1]), HFixed(hlines[k + 1])>>

\* The columns are the boundaries of the pairs more than 1 apart, in order;
\* with every pair more than 1 apart there are N - 1 of them, the k-th built
\* from the k-th and the (k + 1)-th line.
ColsAreGaps ==
    /\ cols = [j \in 1..Cardinality(VGaps) |-> ColOf(Sorted(VGaps)[j])]
    /\ (Len(vlines) >= 1 /\ VGaps = 1..(Len(vlines) - 1)) =>
          /\ Len(cols) = Len(vlines) - 1
          /\ \A k \in 1..Len(cols) : cols[k] = ColOf(k)

\* C4 as claimed: rows and columns alike are the boundaries
\* (prev.fixed, prev.start, curr.fixed, curr.end) of the pairs more than 1
\* apart, N - 1 of them when every pair is.
C4_BoundariesAsClaimed ==
    pc \in {"get_cells", "data"} =>
        /\ ColsAreGaps
        /\ rows = [j \in 1..Cardinality(HGaps) |-> RowOfAsClaimed(Sorted(HGaps)[j])]
        /\ (Len(hlines) >= 1 /\ HGaps = 1..(Len(hlines) - 1)) =>
              /\ Len(rows) = Len(hlines) - 1
              /\ \A k \in 1..Len(rows) : rows[k] = RowOfAsClaimed(k)

\* C4, amended: the same, the row boundary being
\* (prev.start, prev.fixed, curr.end, curr.fixed).
C4_Boundaries ==
    pc \in {"get_cells", "data"} =>
        /\ ColsAreGaps
        /\ rows = [j \in 1..Cardinality(HGaps) |-> RowOf(Sorted(HGaps)[j])]
        /\ (Len(hlines) >= 1 /\ HGaps = 1..(Len(hlines) - 1)) =>
              /\ Len(rows) = Len(hlines) - 1
              /\ \A k \in 1..Len(rows) : rows[k] = RowOf(k)

\* Three horizontal lines each more than 1 apart, and two vertical lines
\* next to each other.
C4_Witness ==
    /\ pc = "data"
    /\ Len(hlines) = 3 /\ HGaps = {1, 2} /\ Len(rows) = 2
    /\ Len(vlines) = 2 /\ VGaps = {} /\ cols = <<>>

\* C5: get_cells returns R rows of C cells each, the cell (i, j) being
\* (cols[j].x_start, rows[i].y_start, cols[j].x_end, rows[i].y_end); with
\* R = 0 or C = 0 there is no cell.
C5_CellMatrix ==
    pc = "data" =>
        /\ DOMAIN cells = 0..(Len(rows) - 1)
        /\ \A i \in DOMAIN cells :
             /\ DOMAIN cells[i] = 0..(Len(cols) - 1)
             /\ \A j \in DOMAIN cells[i] :
                  cells[i][j] = <<cols[j + 1][1], rows[i + 1][2],
                                  cols[j + 1][3], rows[i + 1][4]>>
        /\ (Len(rows) = 0 \/ Len(cols) = 0) => CellKeys = {}

C5_Witness == pc = "data" /\ Len(rows) = 2 /\ Len(cols) = 1

\* ---- CellTrimmer (SpecTrim)
\* The pixels of shade fg are a block in the centre of the image, and the
\* pixels of the other shade, the background, are more.
CenteredBlock(fg) ==
    LET F == {p \in DOMAIN region : region[p] = fg}
    IN /\ region # <<>>
       /\ F # {}
       /\ 2 * Cardinality(F) < Cardinality(DOMAIN region)
       /\ \E a \in 0..(size[1] - 1), b \in 0..(size[2] - 1) :
            F = {p \in DOMAIN region :
                    /\ a <= p[1] /\ p[1] <= size[1] - 1 - a
                    /\ b <= p[2] /\ p[2] <= size[2] - 1 - b}

\* C6 as claimed: of an image that is background but for one centered block
\* of content, the trim keeps exactly the block.
C6_TrimKeepsBlock ==
    \A fg \in {0, 255} :
        (pc = "save" /\ CenteredBlock(fg)) =>
            trimmed = {p \in DOMAIN region : region[p] = fg}

\* C6, amended: of such an image both scans stop on the corners they start
\* from: the crop box is (0, 0, width - 1, height - 1) and the trim keeps
\* the image but for its last column and its last row.
C6_TrimKeepsAllButLast ==
    \A fg \in {0, 255} :
        (pc = "save" /\ CenteredBlock(fg)) =>
            /\ <<x1, y1, x2, y2>> = <<0, 0, size[1] - 1, size[2] - 1>>
            /\ trimmed = {p \in DOMAIN region :
                             p[1] < size[1] - 1 /\ p[2] < size[2] - 1}

C6_Witness == pc = "save" /\ \E fg \in {0, 255} : CenteredBlock(fg)

\* C7: the diagonal scans never read outside the image.
C7_NoReadOutOfRange == pc # "IndexError"

\* C10: when both scans found a pixel of the background shade, each under
\* its cursor, the crop box is well-formed and inside the image.
C10_BoxWellFormed ==
    (pc = "crop" /\ x2 >= 0 /\ y2 >= 0) =>
        /\ 0 <= x1 /\ x1 <= x2 /\ x2 <= size[1] - 1
        /\ 0 <= y1 /\ y1 <= y2 /\ y2 <= size[2] - 1

\* ---- color (SpecColor)
\* The value of a hexadecimal digit.
hex_value(c) ==
    CASE c \in DecDigits -> digit_value(c)
      [] c \in {"a", "A"} -> 10 [] c \in {"b", "B"} -> 11
      [] c \in {"c", "C"} -> 12 [] c \in {"d", "D"} -> 13
      [] c \in {"e", "E"} -> 14 [] c \in {"f", "F"} -> 15
hex_byte(pair) == 16 * hex_value(pair[1]) + hex_value(pair[2])

\* C8: a #RRGGBB argument gives the hexadecimal values of RR, GG and BB, an
\* (R,G,B) argument its decimal values, every value returned has its three
\* channels in 0..255, and every other argument is rejected as no color.
C8_ColorParsed ==
    pc # "parse_args" =>
        LET hex == match_hex(string)
            dec == match_dec(string)
        IN /\ hex # <<>> =>
                value = <<"return", <<hex_byte(hex[1]), hex_byte(hex[2]),
                                      hex_byte(hex[3])>>>>
           /\ (hex = <<>> /\ dec # <<>>) =>
                value = <<"return", <<int(dec[1])[1], int(dec[2])[1],
                                      int(dec[3])[1]>>>>
           /\ value[1] = "return" =>
                \A k \in 1..3 : value[2][k] \in 0..255
           /\ (hex = <<>> /\ dec = <<>>) =>
                value = <<"raise", "ArgumentTypeError">>

\* ---- the main loop (SpecMain)
\* C9: without --workdir, whenever a file's pages are rasterized or its
\* cells are written, args.workdir names a temporary directory that exists.
C9_WorkdirExists ==
    (argv_workdir = <<>> /\ pc \in {"split_pdf_into_pngs", "ocr_table_cell"}) =>
        /\ workdir # <<>>
        /\ workdir[1] \in dirs

=============================================================================
